---- MODULE Spec2Model ----
(***************************************************************************)
(* Proof-of-work admission check and difficulty retargeting                *)
(* (cryptonote difficulty.cpp) with the sqlite statistics recorder         *)
(* (common/db_sqlite3.cpp).                                                *)
(*                                                                         *)
(* Machine words.  mul, check_hash and next_difficulty use no numeric      *)
(* constant other than 0 and 1, so they are modelled on a machine word of  *)
(* 2*HalfBits bits (uint64_t is the instance HalfBits = 32): every         *)
(* uint64_t operation is taken modulo Base = 2^(2*HalfBits), and the       *)
(* 32-bit halves of the portable multiply are HalfBits wide.               *)
(***************************************************************************)
EXTENDS Integers, Sequences, FiniteSets, TLC

VARIABLES
  arch,                    \* build target: which mul() the preprocessor kept
  call,                    \* the call in flight: function name and arguments
  ret,                     \* its outcome: pending, returned (with value) or aborted
  m_statistics_open,       \* BlockchainSQLITEDB::m_statistics_open
  t_next_block_difficulty, \* rows of table t_next_block_difficulty
  m_sqlite3_stmt,          \* BlockchainSQLITEDB::m_sqlite3_stmt: a handle, 0 for nullptr
  sqlite,                  \* the connection m_sqlite3_db: transaction and statements
  threads                  \* each thread's place in insert_next_difficulty

vars == <<arch, call, ret, m_statistics_open, t_next_block_difficulty,
          m_sqlite3_stmt, sqlite, threads>>

----------------------------------------------------------------------------
(* Bounds *)

HalfBits == 2

----------------------------------------------------------------------------
(* uint64_t arithmetic *)

Half == 2 ^ HalfBits
Base == Half * Half
MaxWord == Base - 1
Words == 0 .. MaxWord

\* uint64_t wrap-around of an exact result
u64(x) == x % Base

\* x & 0xFFFFFFFF
lo32_bad(x) == x % (Half * 2)
lo32(x) == x % Half

\* x >> 32
hi32(x) == x \div Half

\* x << 32 on uint64_t: the bits shifted past the word are dropped
shl32(x) == (x * Half) % Base

\* x | y
RECURSIVE bor(_, _)
bor(x, y) ==
  IF x = 0 THEN y
  ELSE IF y = 0 THEN x
  ELSE (IF x % 2 = 1 \/ y % 2 = 1 THEN 1 ELSE 0) + 2 * bor(x \div 2, y \div 2)

\* mul128 of common/int-util.h: low word returned, high word through the pointer
mul128(a, b) == [low |-> (a * b) % Base, high |-> (a * b) \div Base]

\* The portable mul: every intermediate as the code computes it (wrapped to the
\* word), and `wrapped`: whether any addition or multiplication left the word.
mul_portable(a, b) ==
  LET aLow == lo32(a)
      aHigh == hi32(a)
      bLow == lo32(b)
      bHigh == hi32(b)
      x1 == aLow * bLow
      res1 == u64(x1)
      lowRes1 == lo32(res1)
      carry1 == hi32(res1)
      x2 == aHigh * bLow + carry1
      res2 == u64(x2)
      highResHigh1 == hi32(res2)
      highResLow1 == lo32(res2)
      x3 == aLow * bHigh
      res3 == u64(x3)
      lowRes2 == lo32(res3)
      carry2 == hi32(res3)
      x4 == aHigh * bHigh + carry2
      res4 == u64(x4)
      highResHigh2 == hi32(res4)
      highResLow2 == lo32(res4)
      x5 == highResLow1 + lowRes2
      r1 == u64(x5)
      carry3 == hi32(r1)
      low == bor(shl32(r1), lowRes1)
      x6 == highResHigh1 + highResLow2 + carry3
      r2 == u64(x6)
      d3 == lo32(r2)
      carry4 == hi32(r2)
      x7 == highResHigh2 + carry4
      r3 == u64(x7)
      high == bor(d3, shl32(r3))
  IN [low |-> low, high |-> high,
      wrapped |-> \E x \in {x1, x2, x3, x4, x5, x6, x7} : x >= Base]

\* mul(a, b, low, high) as the build selected it
mul(a, b) ==
  IF arch = "x86_64"
    THEN mul128(a, b)
    ELSE [low |-> mul_portable(a, b).low, high |-> mul_portable(a, b).high]

\* a + b < a
cadd(a, b) == u64(a + b) < a

\* a + b < a || (c && a + b == (uint64_t) -1)
cadc_bad(a, b, c) == u64(a + b) < a
cadc(a, b, c) == u64(a + b) < a \/ (c /\ u64(a + b) = MaxWord)

\* check_hash: hash is the four limbs swap64le(((const uint64_t *) &hash)[i]),
\* i = 0..3, kept as hash[i + 1]
check_hash(hash, difficulty) ==
  LET m3 == mul(hash[4], difficulty)
      top == m3.low
  IN IF m3.high # 0 THEN FALSE
     ELSE
       LET m0 == mul(hash[1], difficulty)
           cur0 == m0.high
           m1 == mul(hash[2], difficulty)
           carry1 == cadd(cur0, m1.low)
           cur1 == m1.high
           m2 == mul(hash[3], difficulty)
           carry2 == cadc(cur1, m2.low, carry1)
           carry3 == cadc(m2.high, top, carry2)
       IN ~carry3

----------------------------------------------------------------------------
(* Classic window: next_difficulty and next_difficulty_with_statistics *)

\* Window profiles of cryptonote_config.h, scaled down: the pre-fork profile
\* trims (2 * DIFFICULTY_CUT < DIFFICULTY_WINDOW), the post-fork one does not.
DIFFICULTY_WINDOW == 4
DIFFICULTY_CUT == 1
DIFFICULTY_WINDOW_ADJUST == 3
DIFFICULTY_CUT_ADJUST == 0
DIFFICULTY_ADJUST_HEIGHT == 2

\* std::vector::resize(n): keeps the first n entries, value-initialises new ones
resize(v, n) ==
  IF Len(v) >= n THEN SubSeq(v, 1, n)
  ELSE v \o [i \in 1 .. (n - Len(v)) |-> 0]

\* std::sort(begin, end): ascending
sort_bad(v) == v
RECURSIVE sort(_)
sort(v) ==
  IF v = <<>> THEN <<>>
  ELSE LET rest == sort(Tail(v))
           k == Cardinality({i \in 1 .. Len(rest) : rest[i] < Head(v)})
       IN SubSeq(rest, 1, k) \o <<Head(v)>> \o SubSeq(rest, k + 1, Len(rest))

\* assert(e) with e false: the process aborts, the call never returns
Aborted(assertion) == [status |-> "aborted", assertion |-> assertion]

\* return 1 of the bootstrap case: no entry of either series has been read
Bootstrap_bad == [status |-> "returned", value |-> 0, read |-> FALSE, recorder |-> "none"]
Bootstrap == [status |-> "returned", value |-> 1, read |-> FALSE, recorder |-> "none"]

\* a return after the window was cut: the locals at the return, `overflow`
\* telling which of the two returns was taken, `recorder` what the recorder
\* answered ("none": it was not called)
Computed(value, overflow, cut_begin, cut_end, time_span, total_work) ==
  [status |-> "returned", value |-> value, read |-> TRUE, overflow |-> overflow,
   cut_begin |-> cut_begin, cut_end |-> cut_end,
   time_span |-> time_span, total_work |-> total_work, recorder |-> "none"]

\* high != 0 || low + time_span - 1 < low
overflows_bad(m, time_span) == u64(m.low + time_span - 1) < m.low
overflows(m, time_span) == m.high # 0 \/ u64(m.low + time_span - 1) < m.low

\* (low + time_span - 1) / time_span
ceil_div_bad(low, time_span) == u64(low + time_span - 1) % time_span
ceil_div(low, time_span) == u64(low + time_span - 1) \div time_span

\* vector index i (0-based) of v
at(v, i) == v[i + 1]

\* the window cut out of `length` sorted entries: [cut_begin, cut_end)
cut_begin_bad(length, difficulty_window, difficulty_cut) ==
  IF length <= difficulty_window - 2 * difficulty_cut THEN 0
  ELSE length - (difficulty_window - 2 * difficulty_cut) + 1
cut_begin(length, difficulty_window, difficulty_cut) ==
  IF length <= difficulty_window - 2 * difficulty_cut THEN 0
  ELSE (length - (difficulty_window - 2 * difficulty_cut) + 1) \div 2
cut_end(length, difficulty_window, difficulty_cut) ==
  IF length <= difficulty_window - 2 * difficulty_cut THEN length
  ELSE cut_begin(length, difficulty_window, difficulty_cut)
         + (difficulty_window - 2 * difficulty_cut)

\* the window assertions and the cut, as next_difficulty runs them on a series
\* of `length` >= 2 entries under a profile (lines 147-160)
trim(length, difficulty_window, difficulty_cut) ==
  IF ~(difficulty_window >= 2) THEN Aborted("difficulty_window >= 2")
  ELSE IF ~(length <= difficulty_window) THEN Aborted("length <= difficulty_window")
  ELSE IF ~(2 * difficulty_cut <= difficulty_window - 2)
    THEN Aborted("2 * difficulty_cut <= difficulty_window - 2")
  ELSE IF ~(/\ cut_begin(length, difficulty_window, difficulty_cut) + 2
                 <= cut_end(length, difficulty_window, difficulty_cut)
            /\ cut_end(length, difficulty_window, difficulty_cut) <= length)
    THEN Aborted("cut_begin + 2 <= cut_end && cut_end <= length")
  ELSE [status |-> "returned",
        cut_begin |-> cut_begin(length, difficulty_window, difficulty_cut),
        cut_end |-> cut_end(length, difficulty_window, difficulty_cut)]

next_difficulty(timestamps_in, cumulative_difficulties_in, target_seconds, height) ==
  LET adjust == height >= DIFFICULTY_ADJUST_HEIGHT
      difficulty_window == IF adjust THEN DIFFICULTY_WINDOW_ADJUST ELSE DIFFICULTY_WINDOW
      difficulty_cut == IF adjust THEN DIFFICULTY_CUT_ADJUST ELSE DIFFICULTY_CUT
      shrink == Len(timestamps_in) > difficulty_window
      timestamps == IF shrink THEN resize(timestamps_in, difficulty_window)
                    ELSE timestamps_in
      cumulative_difficulties ==
        IF shrink THEN resize(cumulative_difficulties_in, difficulty_window)
        ELSE cumulative_difficulties_in
      length == Len(timestamps)
  IN
  IF length # Len(cumulative_difficulties)
    THEN Aborted("length == cumulative_difficulties.size()")
  ELSE IF length <= 1 THEN Bootstrap
  ELSE IF ~(difficulty_window >= 2) THEN Aborted("difficulty_window >= 2")
  ELSE IF ~(length <= difficulty_window) THEN Aborted("length <= difficulty_window")
  ELSE IF ~(2 * difficulty_cut <= difficulty_window - 2)
    THEN Aborted("2 * difficulty_cut <= difficulty_window - 2")
  ELSE
    LET sorted == sort(timestamps)
        cutb == cut_begin(length, difficulty_window, difficulty_cut)
        cute == cut_end(length, difficulty_window, difficulty_cut)
    IN
    IF ~(cutb + 2 <= cute /\ cute <= length)
      THEN Aborted("cut_begin + 2 <= cut_end && cut_end <= length")
    ELSE
      LET span == u64(at(sorted, cute - 1) - at(sorted, cutb))
          time_span == IF span = 0 THEN 1 ELSE span
          total_work == u64(at(cumulative_difficulties, cute - 1)
                            - at(cumulative_difficulties, cutb))
      IN
      IF ~(total_work > 0) THEN Aborted("total_work > 0")
      ELSE
        LET m == mul(total_work, target_seconds)
        IN IF overflows(m, time_span)
             THEN Computed(0, TRUE, cutb, cute, time_span, total_work)
             ELSE Computed(ceil_div(m.low, time_span), FALSE,
                           cutb, cute, time_span, total_work)

\* the window profile next_difficulty_with_statistics is compiled with
stat_window == DIFFICULTY_WINDOW
stat_cut_bad == DIFFICULTY_CUT_ADJUST
stat_cut == DIFFICULTY_CUT

\* next_difficulty_with_statistics up to the call of the recorder; a Computed
\* result with overflow = FALSE is final_difficulty, handed to the recorder.
\* The two window assertions are static_asserts here: a build has passed them.
next_difficulty_with_statistics(blockheight, timestamps_in, cumulative_difficulties_in, target_seconds) ==
  LET shrink == Len(timestamps_in) > stat_window
      timestamps == IF shrink THEN resize(timestamps_in, stat_window)
                    ELSE timestamps_in
      cumulative_difficulties ==
        IF shrink THEN resize(cumulative_difficulties_in, stat_window)
        ELSE cumulative_difficulties_in
      length == Len(timestamps)
  IN
  IF length # Len(cumulative_difficulties)
    THEN Aborted("length == cumulative_difficulties.size()")
  ELSE IF length <= 1 THEN Bootstrap
  ELSE IF ~(length <= stat_window) THEN Aborted("length <= DIFFICULTY_WINDOW")
  ELSE
    LET sorted == sort(timestamps)
        cutb == cut_begin(length, stat_window, stat_cut)
        cute == cut_end(length, stat_window, stat_cut)
    IN
    IF ~(cutb + 2 <= cute /\ cute <= length)
      THEN Aborted("cut_begin + 2 <= cut_end && cut_end <= length")
    ELSE
      LET span == u64(at(sorted, cute - 1) - at(sorted, cutb))
          time_span == IF span = 0 THEN 1 ELSE span
          total_work == u64(at(cumulative_difficulties, cute - 1)
                            - at(cumulative_difficulties, cutb))
      IN
      IF ~(total_work > 0) THEN Aborted("total_work > 0")
      ELSE
        LET m == mul(total_work, target_seconds)
        IN IF overflows(m, time_span)
             THEN Computed(0, TRUE, cutb, cute, time_span, total_work)
             ELSE Computed(ceil_div(m.low, time_span), FALSE,
                           cutb, cute, time_span, total_work)

----------------------------------------------------------------------------
(* LWMA-1                                                                  *)
(*                                                                         *)
(* LWMA1_ multiplies by 6, 99, 200 and 2000000, which do not scale with    *)
(* the word, so it is modelled on the real uint64_t.  A uint64_t value x   *)
(* is held as the integer x when x is small and as x - 2^64 when x is      *)
(* within a small distance of 2^64 (two's complement): +, - and * on the   *)
(* integers are then +, - and * modulo 2^64, and only the comparisons and  *)
(* the division need the operators below.  The arguments of the model keep *)
(* every value within that range.                                          *)
(***************************************************************************)

\* a < b on uint64_t
ult(a, b) == IF (a < 0) = (b < 0) THEN a < b ELSE b < 0

\* std::min(a, b) on uint64_t
umin(a, b) == IF ult(b, a) THEN b ELSE a

\* a / b on uint64_t, for a below 2^63 and b > 0 (no other division is modelled)
udiv(a, b) == IF a >= 0 /\ b > 0 THEN a \div b ELSE CHOOSE q \in {} : TRUE

\* 2^64 modulo 10^9, and so modulo every scale i of the rounding loop
Pow64Mod == 709551616

\* (a / i) * i on uint64_t for a scale i of the rounding loop: a less its
\* remainder; a value held as a - 2^64 has the remainder (2^64 + a) % i, and its
\* quotient alone would leave the range
udiv_mul_bad(a, i) == IF a >= 0 THEN udiv(a + i \div 2, i) * i ELSE a - ((Pow64Mod + a) % i)
udiv_mul(a, i) == IF a >= 0 THEN udiv(a, i) * i ELSE a - ((Pow64Mod + a) % i)

\* next_D > i*100 (i*100 <= 10^11 does not wrap, and is below every value
\* held as next_D - 2^64)
above_100(next_D, i) ==
  next_D < 0 \/ next_D \div 100 > i \/ (next_D \div 100 = i /\ next_D % 100 > 0)

\* the loop over i = 1..N: L after it
RECURSIVE lwma_loop(_, _, _, _, _, _)
lwma_loop(timestamps, T, N, i, previous_timestamp, L) ==
  IF ~(i <= N) THEN L
  ELSE
    LET this_timestamp ==
          IF ult(previous_timestamp, at(timestamps, i)) THEN at(timestamps, i)
          ELSE previous_timestamp + 1
    IN lwma_loop(timestamps, T, N, i + 1, this_timestamp,
                 L + i * umin(6 * T, this_timestamp - previous_timestamp))

\* the digit-rounding loop, entered with i = 1000000000
RECURSIVE round_digits(_, _)
round_digits(next_D, i) ==
  IF ~(i > 1) THEN next_D
  ELSE IF above_100(next_D, i) THEN udiv_mul(next_D + i \div 2, i)
  ELSE round_digits(next_D, i \div 10)

\* if (L < N*N*T/20) { L = N*N*T/20; }
floor_L(L, T, N) == IF ult(L, udiv(N * N * T, 20)) THEN udiv(N * N * T, 20) ELSE L

\* return difficulty_guess of the bootstrap period
guess_bad(difficulty_guess) == round_digits(difficulty_guess, 1000000000)
guess(difficulty_guess) == difficulty_guess

LWMA1_(timestamps, cumulative_difficulties, T, N, height, FORK_HEIGHT, difficulty_guess) ==
  IF ~(Len(timestamps) = Len(cumulative_difficulties) /\ ~ult(N + 1, Len(timestamps)))
    THEN Aborted("timestamps.size() == cumulative_difficulties.size() && timestamps.size() <= N+1")
  ELSE IF ~ult(height, FORK_HEIGHT) /\ ult(height, FORK_HEIGHT + N)
    THEN [status |-> "returned", value |-> guess(difficulty_guess), bootstrap |-> TRUE]
  ELSE IF ~(Len(timestamps) = N + 1) THEN Aborted("timestamps.size() == N+1")
  ELSE
    LET previous_timestamp == at(timestamps, 0) - T
        L == floor_L(lwma_loop(timestamps, T, N, 1, previous_timestamp, 0), T, N)
        avg_D == udiv(at(cumulative_difficulties, N) - at(cumulative_difficulties, 0), N)
        next_D == IF ult(2000000 * N * N * T, avg_D)
                    THEN udiv(avg_D, 200 * L) * (N * (N + 1) * T * 99)
                    ELSE udiv(avg_D * N * (N + 1) * T * 99, 200 * L)
    IN [status |-> "returned", value |-> round_digits(next_D, 1000000000),
        bootstrap |-> FALSE, L |-> L, avg_D |-> avg_D, next_D |-> next_D]

----------------------------------------------------------------------------
(* The denominator of LWMA1_ on a scaled word                              *)
(*                                                                         *)
(* 6*T, N*N*T, the sum L and 200*L wrap in uint64_t only for T near 2^63,  *)
(* which the representation above cannot hold.  The same lines are         *)
(* therefore also translated on a word of LoopBits bits, every operation   *)
(* reduced modulo LoopBase, with the constants 6, 20 and 200 as they are.  *)
(***************************************************************************)

LoopBits == 16
LoopBase == 2 ^ LoopBits
uw(x) == x % LoopBase

\* the loop over i = 1..N: the values min(6*T, this_timestamp - previous_timestamp)
RECURSIVE solve_times(_, _, _, _, _)
solve_times(timestamps, T, N, i, previous_timestamp) ==
  IF ~(i <= N) THEN <<>>
  ELSE
    LET this_timestamp ==
          IF at(timestamps, i) > previous_timestamp THEN at(timestamps, i)
          ELSE uw(previous_timestamp + 1)
        a == uw(6 * T)
        b == uw(this_timestamp - previous_timestamp)
    IN <<IF b < a THEN b ELSE a>>
         \o solve_times(timestamps, T, N, i + 1, this_timestamp)

\* L += i * (solve time), from L = 0, over the solve times from the i-th on
RECURSIVE loop_L(_, _, _)
loop_L(st, i, L) ==
  IF i > Len(st) THEN L ELSE loop_L(st, i + 1, uw(L + uw(i * st[i])))

\* lines 255-264: the solve times, L after the floor, and the divisor 200*L
denominator(timestamps, T, N) ==
  LET st == solve_times(timestamps, T, N, 1, uw(at(timestamps, 0) - T))
      L0 == loop_L(st, 1, 0)
      floor == uw(N * N * T) \div 20
      L == IF L0 < floor THEN floor ELSE L0
  IN [solve_times |-> st, L |-> L, divisor |-> uw(200 * L)]

----------------------------------------------------------------------------
(* The two branches of LWMA1_ at full width                                *)
(*                                                                         *)
(* Whether avg_D*N*(N+1)*T*99 stays below 2^64 is a question about values  *)
(* between 10^10 and 2^64.  For it a uint64_t, and the exact product it    *)
(* stands for, is a sequence of bits, least significant first; a product   *)
(* has wrapped when it has a bit set past the 64th.                        *)
(***************************************************************************)

\* the bits of a natural number x
RECURSIVE bits(_)
bits(x) == IF x = 0 THEN <<>> ELSE <<x % 2>> \o bits(x \div 2)

\* b * k + carry, exactly, for a natural k below 2^30
RECURSIVE bits_mul(_, _, _)
bits_mul(b, k, carry) ==
  IF b = <<>> THEN bits(carry)
  ELSE <<(Head(b) * k + carry) % 2>> \o bits_mul(Tail(b), k, (Head(b) * k + carry) \div 2)

\* the bits of b from the i-th down, divided by d with r carried in: the quotient
RECURSIVE bits_div(_, _, _, _)
bits_div(b, i, d, r) ==
  IF i = 0 THEN <<>>
  ELSE IF r >= d - r - b[i]
    THEN bits_div(b, i - 1, d, r - (d - r - b[i])) \o <<1>>
    ELSE bits_div(b, i - 1, d, 2 * r + b[i]) \o <<0>>

bit(b, i) == IF i <= Len(b) THEN b[i] ELSE 0

\* a < b, comparing from the i-th bit down
RECURSIVE bits_less(_, _, _)
bits_less(a, b, i) ==
  IF i = 0 THEN FALSE
  ELSE IF bit(a, i) # bit(b, i) THEN bit(a, i) < bit(b, i)
  ELSE bits_less(a, b, i - 1)

\* a value has left uint64_t; the uint64_t it is stored as
wraps(b) == \E i \in 65 .. Len(b) : b[i] = 1
trunc64(b) == IF Len(b) > 64 THEN SubSeq(b, 1, 64) ELSE b

\* hi * 10^18 + mid * 10^9 + lo, the way an argument is written down
from_parts(v) == bits_mul(bits_mul(bits(v[1]), 1000000000, v[2]), 1000000000, v[3])

\* lines 267-270: next_D from avg_D and L, the branch taken, and whether a
\* product of the branch left uint64_t
branch(avg_D, threshold) == bits_less(threshold, avg_D, 64)
next_D_of(avg_D, L, T, N) ==
  LET threshold == bits_mul(bits_mul(bits_mul(bits(2000000), N, 0), N, 0), T, 0)
  IN IF branch(avg_D, trunc64(threshold))
       THEN LET quotient == bits_div(avg_D, Len(avg_D), 200 * L, 0)
                product == bits_mul(quotient, N * (N + 1) * T * 99, 0)
            IN [status |-> "returned", branch |-> "divide first",
                wrapped |-> wraps(product) \/ wraps(threshold),
                next_D |-> trunc64(product)]
       ELSE LET p1 == bits_mul(avg_D, N, 0)
                p2 == bits_mul(trunc64(p1), N + 1, 0)
                p3 == bits_mul(trunc64(p2), T, 0)
                p4 == bits_mul(trunc64(p3), 99, 0)
            IN [status |-> "returned", branch |-> "multiply first",
                wrapped |-> wraps(p1) \/ wraps(p2) \/ wraps(p3) \/ wraps(p4)
                              \/ wraps(threshold),
                next_D |-> bits_div(trunc64(p4), Len(trunc64(p4)), 200 * L, 0)]

----------------------------------------------------------------------------
(* Statistics recorder: BlockchainSQLITEDB *)

\* What sqlite answers to the four calls of one insert: the environment's choice
SqliteOutcomes ==
  [begin : {"SQLITE_OK", "SQLITE_BUSY"}, prepare : {"SQLITE_OK", "SQLITE_ERROR"},
   step : {"SQLITE_DONE", "SQLITE_FULL"}, commit : {"SQLITE_OK", "SQLITE_BUSY"}]

\* BlockchainSQLITEDB::insert_next_difficulty: the code returned and the table after
insert_next_difficulty(blockheight, timespan, totalwork, difficulty, sq) ==
  IF ~m_statistics_open
    THEN [rc |-> "-1", table |-> t_next_block_difficulty]
  ELSE IF sq.begin # "SQLITE_OK"
    THEN [rc |-> "SQLITE_ERROR", table |-> t_next_block_difficulty]
  ELSE IF sq.prepare = "SQLITE_OK"
    THEN [rc |-> "SQLITE_OK",
          table |-> IF sq.step = "SQLITE_DONE" /\ sq.commit = "SQLITE_OK"
                      THEN Append(t_next_block_difficulty,
                                  <<blockheight, timespan, totalwork, difficulty>>)
                      ELSE t_next_block_difficulty]
  ELSE [rc |-> "SQLITE_ERROR", table |-> t_next_block_difficulty]

\* statistics_tools::insert_next_difficulty: forwards the tuple to the recorder
statistics_insert_next_difficulty(blockheight, timespan, totalwork, difficulty, sq) ==
  insert_next_difficulty(blockheight, timespan, totalwork, difficulty, sq)

\* BlockchainSQLITEDB::open_statistics
open_statistics ==
  /\ m_statistics_open' = TRUE
  /\ UNCHANGED <<arch, call, ret, t_next_block_difficulty, m_sqlite3_stmt, sqlite, threads>>

\* BlockchainSQLITEDB::close_statistics
close_statistics ==
  /\ m_statistics_open' = FALSE
  /\ UNCHANGED <<arch, call, ret, t_next_block_difficulty, m_sqlite3_stmt, sqlite, threads>>

----------------------------------------------------------------------------
(* Calls *)

Archs == {"x86_64", "portable"}
Pending == [status |-> "pending"]

\* a thread outside insert_next_difficulty, before its first call
Idle == [pc |-> "idle", calls |-> 0, tuple |-> <<>>, own |-> 0, foreign |-> FALSE,
         finished |-> <<>>]

Threads == {1, 2}

InitRecorder ==
  /\ m_statistics_open = FALSE
  /\ t_next_block_difficulty = <<>>
  /\ m_sqlite3_stmt = 0
  /\ sqlite = [transaction |-> FALSE, stmts |-> <<>>, crashed |-> FALSE]
  /\ threads = [t \in Threads |-> Idle]

InitMul ==
  /\ arch \in Archs
  /\ \E a \in Words, b \in Words : call = [fn |-> "mul", a |-> a, b |-> b]
  /\ ret = Pending
  /\ InitRecorder

CallMul ==
  /\ call.fn = "mul"
  /\ ret.status = "pending"
  /\ ret' = [status |-> "returned",
             low |-> mul(call.a, call.b).low,
             high |-> mul(call.a, call.b).high]
  /\ UNCHANGED <<arch, call, m_statistics_open, t_next_block_difficulty, m_sqlite3_stmt, sqlite, threads>>

SpecMul == InitMul /\ [][CallMul]_vars

\* Limbs and difficulties of the hashes checked: the words within HashEdge of
\* either end of the word, and the two around the top bit
HashEdge == 7
HashLimbs ==
  {x \in Words : x < HashEdge \/ x >= Base - HashEdge
                 \/ x = Base \div 2 - 1 \/ x = Base \div 2}
Hashes == [1 .. 4 -> HashLimbs]

InitHash ==
  /\ arch \in Archs
  /\ \E h \in Hashes, d \in HashLimbs :
       call = [fn |-> "check_hash", hash |-> h, difficulty |-> d]
  /\ ret = Pending
  /\ InitRecorder

CallCheckHash ==
  /\ call.fn = "check_hash"
  /\ ret.status = "pending"
  /\ ret' = [status |-> "returned",
             value |-> check_hash(call.hash, call.difficulty)]
  /\ UNCHANGED <<arch, call, m_statistics_open, t_next_block_difficulty, m_sqlite3_stmt, sqlite, threads>>

SpecHash == InitHash /\ [][CallCheckHash]_vars

\* Series handed to the classic window: every equal-length pair over two
\* timestamps and two work values up to the pre-fork window, and prefixes of
\* an ascending or descending timestamp ramp with prefixes of a work ramp, of
\* any two lengths up to ExtraLen past the window.
ExtraLen == 1
MaxSeriesLen == DIFFICULTY_WINDOW + ExtraLen
TimeValues == {1, 4}
WorkValues == {0, Base \div 3}
TargetValues == {0, 1, 3, 4}
Heights == {DIFFICULTY_ADJUST_HEIGHT - 1, DIFFICULTY_ADJUST_HEIGHT}

TimeRampUp(n) == [i \in 1 .. n |-> 9 + i + (i \div 3)]
TimeRampDown(n) == [i \in 1 .. n |-> 9 - i]
WorkRamp(n) == [i \in 1 .. n |-> u64((i - 1) + (i \div 3))]

SeriesPairs ==
  UNION {[1 .. n -> TimeValues] \X [1 .. n -> WorkValues] : n \in 0 .. DIFFICULTY_WINDOW}
  \cup {<<ts, WorkRamp(m)>> :
          ts \in {TimeRampUp(n) : n \in 0 .. MaxSeriesLen}
                 \cup {TimeRampDown(n) : n \in 0 .. MaxSeriesLen},
          m \in 0 .. MaxSeriesLen + 1}

InitND ==
  /\ arch \in Archs
  /\ \E f \in {"next_difficulty", "next_difficulty_with_statistics"},
        p \in SeriesPairs, t \in TargetValues, h \in Heights :
       call = [fn |-> f, timestamps |-> p[1], cumulative_difficulties |-> p[2],
               target_seconds |-> t, height |-> h]
  /\ ret = Pending
  /\ InitRecorder

CallNextDifficulty ==
  /\ call.fn = "next_difficulty"
  /\ ret.status = "pending"
  /\ ret' = next_difficulty(call.timestamps, call.cumulative_difficulties,
                            call.target_seconds, call.height)
  /\ UNCHANGED <<arch, call, m_statistics_open, t_next_block_difficulty, m_sqlite3_stmt, sqlite, threads>>

\* final_difficulty is computed, handed to the recorder, and returned
CallNextDifficultyWithStatistics ==
  /\ call.fn = "next_difficulty_with_statistics"
  /\ ret.status = "pending"
  /\ LET r == next_difficulty_with_statistics(call.height, call.timestamps,
                call.cumulative_difficulties, call.target_seconds)
     IN IF r.status = "returned" /\ r.read /\ ~r.overflow
          THEN \E sq \in SqliteOutcomes :
                 LET ins == statistics_insert_next_difficulty(
                              call.height, r.time_span, r.total_work, r.value, sq)
                 IN /\ ret' = [r EXCEPT !.recorder = ins.rc]
                    /\ t_next_block_difficulty' = ins.table
          ELSE /\ ret' = r
               /\ UNCHANGED t_next_block_difficulty
  /\ UNCHANGED <<arch, call, m_statistics_open, m_sqlite3_stmt, sqlite, threads>>

NextND ==
  \/ CallNextDifficulty
  \/ CallNextDifficultyWithStatistics
  \/ open_statistics
  \/ close_statistics

SpecND == InitND /\ [][NextND]_vars

\* Arguments of LWMA1_: windows N up to MaxN, targets T up to MaxT, every
\* pair of series of equal length up to N+1 over three timestamps and a
\* non-decreasing work series (over small values, or over 0 and the least
\* total work whose average is above 2000000*N*N*T), all-equal series of any
\* two lengths up to one past MaxN+1, heights around the fork, and a fork
\* height next to 2^64.
MaxN == 2
MaxT == 2
LwmaTimes == {0, 1, 8}
LwmaWork(T, N) == {{0, 1, 5}, {0, N * (2000000 * N * N * T + 1)}}
LwmaForks == {1, 0 - 2}
LwmaGuesses == {0, 1, 100001}

NonDecreasing(v) == \A i \in 1 .. Len(v) - 1 : v[i] <= v[i + 1]

LwmaPairs(T, N) ==
  UNION {[1 .. n -> LwmaTimes]
           \X {v \in UNION {[1 .. n -> W] : W \in LwmaWork(T, N)} : NonDecreasing(v)} :
           n \in 0 .. N + 1}
  \cup {<<[i \in 1 .. n |-> 1], [i \in 1 .. m |-> 1]>> :
          n \in 0 .. N + 2, m \in 0 .. N + 2}

InitLWMA ==
  /\ arch \in Archs
  /\ \E T \in 1 .. MaxT, N \in 1 .. MaxN :
       \E p \in LwmaPairs(T, N), f \in LwmaForks, dh \in {0 - 1, 0, 1, 2},
          g \in LwmaGuesses :
         call = [fn |-> "LWMA1_", timestamps |-> p[1],
                 cumulative_difficulties |-> p[2],
                 T |-> T, N |-> N, height |-> f + dh, FORK_HEIGHT |-> f,
                 difficulty_guess |-> g]
  /\ ret = Pending
  /\ InitRecorder

CallLWMA1 ==
  /\ call.fn = "LWMA1_"
  /\ ret.status = "pending"
  /\ ret' = LWMA1_(call.timestamps, call.cumulative_difficulties, call.T, call.N,
                   call.height, call.FORK_HEIGHT, call.difficulty_guess)
  /\ UNCHANGED <<arch, call, m_statistics_open, t_next_block_difficulty, m_sqlite3_stmt, sqlite, threads>>

SpecLWMA == InitLWMA /\ [][CallLWMA1]_vars

\* Two threads in BlockchainSQLITEDB::insert_next_difficulty on one object, one
\* statement of the function at a time; sqlite3 answers as documented for one
\* connection used in serialized mode, and never fails on its own.  Thread t's
\* n-th call records block height 10*t + n.
MaxCalls == 2

Return(t, tuple, rc) ==
  [threads EXCEPT ![t].pc = "idle", ![t].calls = @ + 1, ![t].own = 0, ![t].tuple = tuple,
                  ![t].finished = Append(@, [tuple |-> tuple, rc |-> rc])]

\* line 135: the call and CHECK_AND_NO_ASSERT_MES_L(m_statistics_open, -1, ...)
insert_enter(t) ==
  /\ ~sqlite.crashed
  /\ threads[t].pc = "idle"
  /\ threads[t].calls < MaxCalls
  /\ LET tuple == <<10 * t + threads[t].calls + 1, 1, 1, 1>>
     IN threads' = IF m_statistics_open
                     THEN [threads EXCEPT ![t].pc = "begin", ![t].tuple = tuple]
                     ELSE Return(t, tuple, "-1")
  /\ UNCHANGED <<arch, call, ret, m_statistics_open, t_next_block_difficulty, m_sqlite3_stmt, sqlite>>

\* lines 141-148: BEGIN TRANSACTION; inside a transaction of the connection it
\* fails, and the error path ends that transaction and returns SQLITE_ERROR
insert_begin(t) ==
  /\ ~sqlite.crashed
  /\ threads[t].pc = "begin"
  /\ IF sqlite.transaction
       THEN /\ sqlite' = [sqlite EXCEPT !.transaction = FALSE]
            /\ threads' = Return(t, threads[t].tuple, "SQLITE_ERROR")
       ELSE /\ sqlite' = [sqlite EXCEPT !.transaction = TRUE]
            /\ threads' = [threads EXCEPT ![t].pc = "prepare"]
  /\ UNCHANGED <<arch, call, ret, m_statistics_open, t_next_block_difficulty, m_sqlite3_stmt>>

\* line 150: sqlite3_prepare_v2(..., &m_sqlite3_stmt, ...) stores a new handle
\* in the member, whatever it held
insert_prepare(t) ==
  /\ ~sqlite.crashed
  /\ threads[t].pc = "prepare"
  /\ sqlite' = [sqlite EXCEPT !.stmts = Append(@, [state |-> "prepared", bound |-> <<>>])]
  /\ m_sqlite3_stmt' = Len(sqlite.stmts) + 1
  /\ threads' = [threads EXCEPT ![t].pc = "bind", ![t].own = Len(sqlite.stmts) + 1]
  /\ UNCHANGED <<arch, call, ret, m_statistics_open, t_next_block_difficulty>>

\* thread t uses the handle the member holds now
Uses(t, next) ==
  [threads EXCEPT ![t].pc = next,
                  ![t].foreign = @ \/ m_sqlite3_stmt # threads[t].own]

\* a finalized handle is freed memory: using it crashes, or sqlite3 notices
\* and answers SQLITE_MISUSE
UseAfterFinalize(t, next) ==
  /\ \E crash \in BOOLEAN : sqlite' = [sqlite EXCEPT !.crashed = crash]
  /\ threads' = Uses(t, next)
  /\ UNCHANGED <<t_next_block_difficulty>>

\* lines 155-158: the four sqlite3_bind_blob(m_sqlite3_stmt, ...); a statement
\* that has been stepped refuses new values
insert_bind(t) ==
  /\ ~sqlite.crashed
  /\ threads[t].pc = "bind"
  /\ IF sqlite.stmts[m_sqlite3_stmt].state = "finalized"
       THEN UseAfterFinalize(t, "step")
       ELSE /\ sqlite' = IF sqlite.stmts[m_sqlite3_stmt].state = "prepared"
                           THEN [sqlite EXCEPT !.stmts[m_sqlite3_stmt].bound = threads[t].tuple]
                           ELSE sqlite
            /\ threads' = Uses(t, "step")
            /\ UNCHANGED <<t_next_block_difficulty>>
  /\ UNCHANGED <<arch, call, ret, m_statistics_open, m_sqlite3_stmt>>

\* line 161: sqlite3_step(m_sqlite3_stmt) inserts the bound values (NULLs when
\* nothing is bound); a statement already stepped runs again or answers
\* SQLITE_MISUSE, as the library was built
insert_step(t) ==
  /\ ~sqlite.crashed
  /\ threads[t].pc = "step"
  /\ IF sqlite.stmts[m_sqlite3_stmt].state = "finalized"
       THEN UseAfterFinalize(t, "finalize")
       ELSE /\ \E autoreset \in BOOLEAN :
                 t_next_block_difficulty' =
                   IF sqlite.stmts[m_sqlite3_stmt].state = "prepared" \/ autoreset
                     THEN Append(t_next_block_difficulty, sqlite.stmts[m_sqlite3_stmt].bound)
                     ELSE t_next_block_difficulty
            /\ sqlite' = [sqlite EXCEPT !.stmts[m_sqlite3_stmt].state = "stepped"]
            /\ threads' = Uses(t, "finalize")
  /\ UNCHANGED <<arch, call, ret, m_statistics_open, m_sqlite3_stmt>>

\* line 163: sqlite3_finalize(m_sqlite3_stmt)
insert_finalize(t) ==
  /\ ~sqlite.crashed
  /\ threads[t].pc = "finalize"
  /\ IF sqlite.stmts[m_sqlite3_stmt].state = "finalized"
       THEN UseAfterFinalize(t, "commit")
       ELSE /\ sqlite' = [sqlite EXCEPT !.stmts[m_sqlite3_stmt].state = "finalized"]
            /\ threads' = Uses(t, "commit")
            /\ UNCHANGED <<t_next_block_difficulty>>
  /\ UNCHANGED <<arch, call, ret, m_statistics_open, m_sqlite3_stmt>>

\* lines 164-166: COMMIT and return SQLITE_OK
insert_commit(t) ==
  /\ ~sqlite.crashed
  /\ threads[t].pc = "commit"
  /\ sqlite' = [sqlite EXCEPT !.transaction = FALSE]
  /\ threads' = Return(t, threads[t].tuple, "SQLITE_OK")
  /\ UNCHANGED <<arch, call, ret, m_statistics_open, t_next_block_difficulty, m_sqlite3_stmt>>

InitInsert ==
  /\ arch \in Archs
  /\ call = [fn |-> "insert_next_difficulty"]
  /\ ret = Pending
  /\ InitRecorder

NextInsert ==
  \/ open_statistics
  \/ close_statistics
  \/ \E t \in Threads :
       \/ insert_enter(t)
       \/ insert_begin(t)
       \/ insert_prepare(t)
       \/ insert_bind(t)
       \/ insert_step(t)
       \/ insert_finalize(t)
       \/ insert_commit(t)

SpecInsert == InitInsert /\ [][NextInsert]_vars

\* The denominator of LWMA1_ on the scaled word: N up to MaxN, timestamps of
\* N+1 entries in any order, and T from 1 to the small targets, around a
\* sixth and a half of the word, and at its end
SmallTargets == 12
LoopTimes == {0, 1, 5, 90, LoopBase - 1}
LoopTargets ==
  (1 .. SmallTargets)
  \cup {LoopBase \div 6 + d : d \in 0 .. 1}
  \cup {LoopBase \div 2 + d : d \in {0 - 1, 0, 1}}
  \cup {LoopBase - 1}

InitDenominator ==
  /\ arch \in Archs
  /\ \E N \in 1 .. MaxN, T \in LoopTargets :
       \E ts \in [1 .. N + 1 -> LoopTimes] :
         call = [fn |-> "LWMA1_ denominator", timestamps |-> ts, T |-> T, N |-> N]
  /\ ret = Pending
  /\ InitRecorder

\* lines 255-270 up to the division by 200*L; a division by zero is undefined:
\* it traps or goes on with some value
CallDenominator ==
  /\ call.fn = "LWMA1_ denominator"
  /\ ret.status = "pending"
  /\ LET d == denominator(call.timestamps, call.T, call.N)
     IN \E trap \in BOOLEAN :
          ret' = [status |-> IF d.divisor = 0 /\ trap THEN "trapped" ELSE "returned",
                  solve_times |-> d.solve_times, L |-> d.L, divisor |-> d.divisor]
  /\ UNCHANGED <<arch, call, m_statistics_open, t_next_block_difficulty, m_sqlite3_stmt, sqlite, threads>>

SpecDenominator == InitDenominator /\ [][CallDenominator]_vars

\* The branches of LWMA1_ at full width, for the documented parameters
\* (N=60, 90, and 150 for T=600, 120, 60), L at its floor, at its on-target
\* value and at its cap, and avg_D, written <<hi, mid, lo>> for
\* hi * 10^18 + mid * 10^9 + lo, in AvgSteps steps of AvgStep * 10^9, at and
\* just above the branch threshold, and up to the largest uint64_t
LwmaParameters == {<<60, 600>>, <<90, 120>>, <<150, 60>>}
AvgSteps == 12
AvgStep == 17
Threshold(T, N) == <<0, (2 * N * N * T) \div 1000, ((2 * N * N * T) % 1000) * 1000000>>
AvgDs(T, N) ==
  {<<0, k * AvgStep, k>> : k \in 0 .. AvgSteps}
  \cup {<<0, Threshold(T, N)[2], Threshold(T, N)[3] + d>> : d \in 0 .. 1}
  \cup {<<1, 0, 0>>, <<1, 800000000, 0>>, <<1, 900000000, 0>>,
        <<18, 446744073, 709551615>>}
Ls(T, N) ==
  {(N * N * T) \div 20, T * ((N * (N + 1)) \div 2), 6 * T * ((N * (N + 1)) \div 2)}

InitBranch ==
  /\ arch \in Archs
  /\ \E p \in LwmaParameters :
       \E a \in AvgDs(p[2], p[1]), L \in Ls(p[2], p[1]) :
         call = [fn |-> "LWMA1_ next_D", avg_D |-> a, L |-> L, T |-> p[2], N |-> p[1]]
  /\ ret = Pending
  /\ InitRecorder

CallBranch ==
  /\ call.fn = "LWMA1_ next_D"
  /\ ret.status = "pending"
  /\ ret' = next_D_of(from_parts(call.avg_D), call.L, call.T, call.N)
  /\ UNCHANGED <<arch, call, m_statistics_open, t_next_block_difficulty, m_sqlite3_stmt, sqlite, threads>>

SpecBranch == InitBranch /\ [][CallBranch]_vars

\* The window assertions and the cut on their own, for every profile up to
\* MaxWindow entries (well-formed or not) and every series length from 2, the
\* least that reaches them
MaxWindow == 8
InitTrim ==
  /\ arch \in Archs
  /\ \E w \in 0 .. MaxWindow, c \in 0 .. MaxWindow \div 2, n \in 2 .. MaxWindow + 1 :
       call = [fn |-> "trim", difficulty_window |-> w, difficulty_cut |-> c, length |-> n]
  /\ ret = Pending
  /\ InitRecorder

CallTrim ==
  /\ call.fn = "trim"
  /\ ret.status = "pending"
  /\ ret' = trim(call.length, call.difficulty_window, call.difficulty_cut)
  /\ UNCHANGED <<arch, call, m_statistics_open, t_next_block_difficulty, m_sqlite3_stmt, sqlite, threads>>

SpecTrim == InitTrim /\ [][CallTrim]_vars

\* The digit rounding of LWMA1_ on its own: next_D values up to RoundSmall,
\* within RoundSpread of each scale's threshold 100*i, of its next threshold
\* and of a rounding midpoint, and values within a small distance of 2^64
\* (held as x - 2^64), where next_D + i/2 wraps
RoundSmall == 1200
RoundSpread == 3
RoundScales == {10, 100, 1000, 10000, 100000, 1000000, 10000000}
RoundInputs ==
  (0 .. RoundSmall)
  \cup {m * i + d : m \in {100, 104, 105, 150, 200}, i \in RoundScales,
                    d \in (0 - RoundSpread) .. RoundSpread}
  \cup {(0 - m) + d : m \in {0, 500000000, 709551616, 1209551616, 1709551616},
                      d \in (0 - RoundSpread) .. (0 - 1)}
  \cup {(0 - m) + d : m \in {500000000, 709551616, 1209551616, 1709551616},
                      d \in 0 .. RoundSpread}

InitRound ==
  /\ arch \in Archs
  /\ \E x \in RoundInputs : call = [fn |-> "round_digits", next_D |-> x]
  /\ ret = Pending
  /\ InitRecorder

\* the loop of lines 273-277 run on next_D
CallRound ==
  /\ call.fn = "round_digits"
  /\ ret.status = "pending"
  /\ ret' = [status |-> "returned", value |-> round_digits(call.next_D, 1000000000),
             first |-> round_digits(call.next_D, 1000000000), rounds |-> 1]
  /\ UNCHANGED <<arch, call, m_statistics_open, t_next_block_difficulty, m_sqlite3_stmt, sqlite, threads>>

\* the loop run once more, on the value it returned
RoundAgain ==
  /\ call.fn = "round_digits"
  /\ ret.status = "returned"
  /\ ret.rounds = 1
  /\ ret' = [ret EXCEPT !.value = round_digits(ret.value, 1000000000), !.rounds = 2]
  /\ UNCHANGED <<arch, call, m_statistics_open, t_next_block_difficulty, m_sqlite3_stmt, sqlite, threads>>

NextRound == CallRound \/ RoundAgain

SpecRound == InitRound /\ [][NextRound]_vars

----------------------------------------------------------------------------
(* Claims *)

Returned(f) == call.fn = f /\ ret.status = "returned"
Finished(f) == call.fn = f /\ ret.status # "pending"

\* the integer a hash stands for: limb i weighs Base^i
HashValue(h) == h[1] + Base * (h[2] + Base * (h[3] + Base * h[4]))

\* C1: check_hash(hash, difficulty) is true exactly when the integer product
\* hash * difficulty is strictly below Base^4 (2^256 on 64-bit limbs); so the
\* hash with only the top bit set is rejected at difficulty 2 (the product is
\* exactly Base^4) and the zero hash is accepted at every difficulty.
C1_CheckHashExact ==
  Returned("check_hash") =>
    (ret.value <=> HashValue(call.hash) * call.difficulty < Base * Base * Base * Base)

\* C1 witness: the top-bit hash at difficulty 2 has been checked and rejected
C1_Witness ==
  /\ Returned("check_hash")
  /\ call.hash = <<0, 0, 0, Base \div 2>>
  /\ call.difficulty = 2
  /\ ret.value = FALSE

\* C2: the portable mul yields high * Base + low = a * b exactly, with no
\* intermediate addition or multiplication leaving the word; the result is the
\* same for (b, a), and the same as the native 128-bit path's.
C2_MulExact ==
  Returned("mul") =>
    /\ ret.low \in Words /\ ret.high \in Words
    /\ ret.high * Base + ret.low = call.a * call.b
    /\ ~mul_portable(call.a, call.b).wrapped
    /\ mul(call.b, call.a) = [low |-> ret.low, high |-> ret.high]
    /\ mul_portable(call.a, call.b).low = mul128(call.a, call.b).low
    /\ mul_portable(call.a, call.b).high = mul128(call.a, call.b).high

\* C2 witness: the portable build has multiplied the two largest words
C2_Witness ==
  /\ Returned("mul")
  /\ arch = "portable"
  /\ call.a = MaxWord /\ call.b = MaxWord
  /\ ret.low = 1 /\ ret.high = MaxWord - 1

\* What the classic window is documented to compute, from the arguments alone
RefWindow(h) ==
  IF h >= DIFFICULTY_ADJUST_HEIGHT THEN DIFFICULTY_WINDOW_ADJUST ELSE DIFFICULTY_WINDOW
RefCut(h) ==
  IF h >= DIFFICULTY_ADJUST_HEIGHT THEN DIFFICULTY_CUT_ADJUST ELSE DIFFICULTY_CUT
RefFirst(v, w) == IF Len(v) > w THEN SubSeq(v, 1, w) ELSE v
RefSorted(v) ==
  CHOOSE t \in [1 .. Len(v) -> {v[i] : i \in 1 .. Len(v)}] :
    /\ \A i \in 1 .. Len(v) - 1 : t[i] <= t[i + 1]
    /\ \A x \in {v[i] : i \in 1 .. Len(v)} :
         Cardinality({i \in 1 .. Len(v) : t[i] = x})
           = Cardinality({i \in 1 .. Len(v) : v[i] = x})
RefCutBegin(len, w, c) == IF len <= w - 2 * c THEN 0 ELSE (len - (w - 2 * c) + 1) \div 2
RefCutEnd(len, w, c) == IF len <= w - 2 * c THEN len ELSE RefCutBegin(len, w, c) + (w - 2 * c)
RefTimeSpan(ts, w, c) ==
  LET t == RefSorted(RefFirst(ts, w))
      d == t[RefCutEnd(Len(t), w, c)] - t[RefCutBegin(Len(t), w, c) + 1]
  IN IF d = 0 THEN 1 ELSE d
RefTotalWork(cd, w, c) ==
  LET v == RefFirst(cd, w)
  IN (v[RefCutEnd(Len(v), w, c)] - v[RefCutBegin(Len(v), w, c) + 1]) % Base
\* the scaled division leaves the word: in the product, or in the ceiling addition
RefOverflow(work, target, span) ==
  work * target >= Base \/ work * target + span - 1 >= Base
RefCeil(work, target, span) == (work * target + span - 1) \div span

EqualLength == Len(call.timestamps) = Len(call.cumulative_difficulties)

ReachedDivision(f) == Returned(f) /\ ret.read

\* C4 as claimed: next_difficulty returns 0 exactly when the scaled division
\* overflows (the product has a high word, or the ceiling addition wraps), and
\* otherwise the exact ceiling quotient.
C4_ZeroIffOverflow ==
  ReachedDivision("next_difficulty") =>
    LET over == RefOverflow(ret.total_work, call.target_seconds, ret.time_span)
    IN /\ ret.value = 0 <=> over
       /\ ~over => ret.value = RefCeil(ret.total_work, call.target_seconds, ret.time_span)

\* C4 amended: an overflowing scaled division returns 0, every other one the
\* exact ceiling quotient (never a wrapped value), and for target_seconds >= 1
\* the result is 0 exactly when the division overflows; at target_seconds = 0
\* the quotient itself is 0.
C4_ZeroIffOverflowForPositiveTarget ==
  ReachedDivision("next_difficulty") =>
    LET over == RefOverflow(ret.total_work, call.target_seconds, ret.time_span)
    IN /\ over => ret.value = 0
       /\ ~over => ret.value = RefCeil(ret.total_work, call.target_seconds, ret.time_span)
       /\ call.target_seconds >= 1 => (ret.value = 0 <=> over)
       /\ call.target_seconds = 0 => (ret.value = 0 /\ ~over)

\* C4 witness: a product without a high word whose ceiling addition wraps
\* returned 0
C4_Witness ==
  /\ ReachedDivision("next_difficulty")
  /\ call.target_seconds >= 1
  /\ ret.total_work * call.target_seconds = MaxWord
  /\ ret.time_span >= 2
  /\ ret.value = 0

\* C5: called with equal-length series of length 0 or 1, next_difficulty and
\* next_difficulty_with_statistics return exactly 1, at every height and
\* target_seconds, without reading an entry of either series.
C5_BootstrapReturnsOne ==
  (/\ Finished("next_difficulty") \/ Finished("next_difficulty_with_statistics")
   /\ EqualLength
   /\ Len(call.timestamps) <= 1) =>
    /\ ret.status = "returned"
    /\ ret.value = 1
    /\ ~ret.read
    /\ t_next_block_difficulty = <<>>

\* C5 witness: a single-entry series was given to the statistics variant
C5_Witness ==
  /\ Returned("next_difficulty_with_statistics")
  /\ Len(call.timestamps) = 1
  /\ Len(call.cumulative_difficulties) = 1
  /\ call.height >= DIFFICULTY_ADJUST_HEIGHT
  /\ ret.value = 1

\* C7: next_difficulty_with_statistics ends as next_difficulty does on the same
\* series and target at every height below DIFFICULTY_ADJUST_HEIGHT (same
\* value, or the same failed assertion), whatever the recorder answered.
C7_StatisticsVariantAgrees ==
  Finished("next_difficulty_with_statistics") =>
    \A h \in 0 .. DIFFICULTY_ADJUST_HEIGHT - 1 :
      LET r == next_difficulty(call.timestamps, call.cumulative_difficulties,
                               call.target_seconds, h)
      IN /\ r.status = ret.status
         /\ ret.status = "returned" => r.value = ret.value
         /\ ret.status = "aborted" => r.assertion = ret.assertion

\* C7 witness: the recorder failed on a trimmed window at a post-fork height,
\* and a difficulty above 1 was returned
C7_Witness ==
  /\ Returned("next_difficulty_with_statistics")
  /\ ret.recorder = "SQLITE_ERROR"
  /\ call.height >= DIFFICULTY_ADJUST_HEIGHT
  /\ Len(call.timestamps) > DIFFICULTY_WINDOW - 2 * DIFFICULTY_CUT
  /\ ret.value > 1

\* C8 as claimed: a call of next_difficulty or next_difficulty_with_statistics
\* with series of different lengths fails an assertion and returns no
\* difficulty, for every pair of lengths.
C8_LengthMismatchAborts ==
  (/\ Finished("next_difficulty") \/ Finished("next_difficulty_with_statistics")
   /\ ~EqualLength) => ret.status = "aborted"

\* A second call on the same timestamps, target and height whose work series
\* gives the total work `work` over the same window
WorkSeriesOf(work) ==
  [i \in 1 .. Len(call.timestamps) |-> IF i >= ret.cut_end THEN work ELSE 0]
OtherCall(work) ==
  next_difficulty(call.timestamps, WorkSeriesOf(work), call.target_seconds, call.height)

\* C10 as claimed: with the same timestamps, target and height, a call whose
\* total work is at least this call's returns at least this call's result,
\* for every total work of the word.
C10_Monotone ==
  ReachedDivision("next_difficulty") =>
    \A work \in Words :
      (work >= ret.total_work) =>
        /\ OtherCall(work).status = "returned"
        /\ OtherCall(work).time_span = ret.time_span
        /\ OtherCall(work).total_work = work
        /\ ret.value <= OtherCall(work).value

\* C10 amended: the same, for every larger total work whose scaled division
\* does not overflow (an overflowing one returns 0, below any earlier result).
C10_MonotoneWithoutOverflow ==
  ReachedDivision("next_difficulty") =>
    \A work \in Words :
      (work >= ret.total_work) =>
        /\ OtherCall(work).status = "returned"
        /\ OtherCall(work).time_span = ret.time_span
        /\ OtherCall(work).total_work = work
        /\ ~OtherCall(work).overflow => ret.value <= OtherCall(work).value
        /\ OtherCall(work).overflow => OtherCall(work).value = 0

\* C10 witness: a call returned a difficulty above 1, and a call with more
\* work on the same timestamps returns more without overflowing
C10_Witness ==
  /\ ReachedDivision("next_difficulty")
  /\ ret.value > 1
  /\ \E work \in Words :
       /\ work > ret.total_work
       /\ ~OtherCall(work).overflow
       /\ OtherCall(work).value > ret.value

\* fork_height <= height < fork_height + N, on the integers: height is at or
\* past the fork, by less than N
InBootstrap == ~ult(call.height, call.FORK_HEIGHT) /\ ult(call.height - call.FORK_HEIGHT, call.N)

\* fork_height + N does not wrap past 2^64
ForkEndFits == ~ult(call.FORK_HEIGHT + call.N, call.FORK_HEIGHT)

\* C6 as claimed: LWMA1_ called with fork_height <= height < fork_height + N
\* returns difficulty_guess unchanged and unrounded, whatever the contents and
\* the lengths of the two series.
C6_BootstrapReturnsGuess ==
  (Finished("LWMA1_") /\ InBootstrap) =>
    /\ ret.status = "returned"
    /\ ret.value = call.difficulty_guess

\* C6 amended: for series of equal length at most N+1, whatever their
\* contents, a call with fork_height <= height < fork_height + N returns
\* difficulty_guess unchanged when fork_height + N does not wrap past 2^64;
\* when it wraps the bootstrap test is false and the call goes on to the
\* window; series of other lengths fail the first assertion.
C6_BootstrapReturnsGuessForValidSeries ==
  (Finished("LWMA1_") /\ InBootstrap) =>
    IF /\ Len(call.timestamps) = Len(call.cumulative_difficulties)
       /\ Len(call.timestamps) <= call.N + 1
      THEN IF ForkEndFits
             THEN /\ ret.status = "returned"
                  /\ ret.bootstrap
                  /\ ret.value = call.difficulty_guess
             ELSE ret.status = "returned" => ~ret.bootstrap
      ELSE ret.status = "aborted"

\* C6 witness: inside the bootstrap range a guess that the digit rounding
\* would change came back as given, from series shorter than N+1
C6_Witness ==
  /\ Returned("LWMA1_")
  /\ InBootstrap
  /\ call.height > call.FORK_HEIGHT
  /\ Len(call.timestamps) < call.N + 1
  /\ call.difficulty_guess = 100001
  /\ ret.value = 100001

\* C9 as claimed: with the preconditions met (equal-length series, positive
\* total work, target_seconds >= 1, difficulty_guess >= 1, N+1 samples with
\* N >= 1 for LWMA1_), next_difficulty returns 0 only in an overflow case and
\* LWMA1_ never returns 0.
C9_ZeroOnlyOnFailure ==
  /\ (/\ ReachedDivision("next_difficulty")
      /\ EqualLength
      /\ call.target_seconds >= 1
      /\ ~ret.overflow) => ret.value >= 1
  /\ (/\ Finished("LWMA1_")
      /\ Len(call.timestamps) = call.N + 1
      /\ Len(call.cumulative_difficulties) = call.N + 1
      /\ call.N >= 1 /\ call.T >= 1
      /\ call.difficulty_guess # 0
      /\ at(call.cumulative_difficulties, call.N) # at(call.cumulative_difficulties, 0)) =>
       (ret.status = "returned" /\ ret.value # 0)

\* C9, the classic window's half alone: it holds of next_difficulty
C9_ClassicWindowPart ==
  (/\ ReachedDivision("next_difficulty")
   /\ EqualLength
   /\ call.target_seconds >= 1
   /\ ~ret.overflow) => ret.value >= 1

\* the scale the loop stops at for x: the first of 10^9 .. 10 with x > 100*scale,
\* 1 when there is none
RECURSIVE ScaleOf(_, _)
ScaleOf(x, i) == IF ~(i > 1) THEN 1 ELSE IF above_100(x, i) THEN i ELSE ScaleOf(x, i \div 10)

\* C11: the digit rounding of LWMA1_ is idempotent (rounding an already rounded
\* value returns it), a value of at most 1000 is returned unchanged, and a
\* rounded value is a multiple of the scale it was rounded at.
C11_RoundingIdempotent ==
  Returned("round_digits") =>
    /\ ret.rounds = 2 => ret.value = ret.first
    /\ (call.next_D >= 0 /\ call.next_D <= 1000) => ret.first = call.next_D
    /\ (call.next_D >= 0) => ret.first % ScaleOf(call.next_D, 1000000000) = 0

\* C11 witness: a value just above a scale's threshold was rounded down onto
\* the threshold, where the next scale applies, and rounded again
C11_Witness ==
  /\ Returned("round_digits")
  /\ ret.rounds = 2
  /\ call.next_D = 100001
  /\ ret.first = 100000
  /\ ret.value = 100000

\* C12: under a profile with W >= 2 and 2*C <= W - 2, for a series of
\* 2 <= L <= W entries no window assertion fails and the cut satisfies
\* cut_begin + 2 <= cut_end <= L; it is (0, L) when L <= W - 2*C and has width
\* exactly W - 2*C otherwise.
C12_TrimWindow ==
  (/\ Finished("trim")
   /\ call.difficulty_window >= 2
   /\ 2 * call.difficulty_cut <= call.difficulty_window - 2
   /\ call.length >= 2 /\ call.length <= call.difficulty_window) =>
    /\ ret.status = "returned"
    /\ 0 <= ret.cut_begin
    /\ ret.cut_begin + 2 <= ret.cut_end
    /\ ret.cut_end <= call.length
    /\ IF call.length <= call.difficulty_window - 2 * call.difficulty_cut
         THEN ret.cut_begin = 0 /\ ret.cut_end = call.length
         ELSE ret.cut_end - ret.cut_begin
                = call.difficulty_window - 2 * call.difficulty_cut

\* C12 witness: a full window of 8 with 2 cut on each side keeps [2, 6)
C12_Witness ==
  /\ Returned("trim")
  /\ call.difficulty_window = 8 /\ call.difficulty_cut = 2 /\ call.length = 8
  /\ ret.cut_begin = 2 /\ ret.cut_end = 6

\* 6*T, every weighted sum and 200*L stay within the word
NoLoopWrap ==
  200 * (6 * call.T * ((call.N * (call.N + 1)) \div 2)) < LoopBase

\* C13 as claimed: in LWMA1_ with N >= 1 and T >= 1, for every series of N+1
\* timestamps each solve time added to L is at least 1 and at most 6*T, after
\* the floor L >= max(N*(N+1)/2, N*N*T/20) > 0, and 200*L is not zero.
C13_DenominatorPositive ==
  (/\ Finished("LWMA1_ denominator")
   /\ call.N >= 1 /\ call.T >= 1) =>
    /\ \A i \in 1 .. call.N :
         ret.solve_times[i] >= 1 /\ ret.solve_times[i] <= 6 * call.T
    /\ ret.L >= (call.N * (call.N + 1)) \div 2
    /\ ret.L >= (call.N * call.N * call.T) \div 20
    /\ ret.L > 0
    /\ ret.divisor # 0
    /\ ret.status = "returned"

\* C13 where nothing wraps: it holds for every T and N whose 6*T, sums and
\* 200*L stay within the word
C13_DenominatorPositiveWithoutWrap ==
  (/\ Finished("LWMA1_ denominator")
   /\ call.N >= 1 /\ call.T >= 1
   /\ NoLoopWrap) =>
    /\ \A i \in 1 .. call.N :
         ret.solve_times[i] >= 1 /\ ret.solve_times[i] <= 6 * call.T
    /\ ret.L >= (call.N * (call.N + 1)) \div 2
    /\ ret.L >= (call.N * call.N * call.T) \div 20
    /\ ret.divisor = 200 * ret.L /\ ret.divisor > 0
    /\ ret.status = "returned"

\* C14 as claimed: for the documented parameters, neither branch of LWMA1_
\* forms a product that leaves uint64_t: avg_D*N*(N+1)*T*99 stays below 2^64
\* whenever avg_D <= 2000000*N*N*T, and so does
\* (avg_D/(200*L))*(N*(N+1)*T*99) above it.
C14_BranchesDoNotWrap ==
  Finished("LWMA1_ next_D") => ~ret.wrapped

\* a < b for values written <<hi, mid, lo>>
PartsLess(a, b) ==
  \/ a[1] < b[1]
  \/ a[1] = b[1] /\ a[2] < b[2]
  \/ a[1] = b[1] /\ a[2] = b[2] /\ a[3] < b[3]

\* C14, what does hold: the divide-first branch is taken exactly above the
\* threshold 2000000*N*N*T, and with L at its on-target value T*N*(N+1)/2 or
\* above, it stays within uint64_t for every avg_D
C14_DivideFirstOnTarget ==
  Finished("LWMA1_ next_D") =>
    /\ ret.branch = "divide first" <=> PartsLess(Threshold(call.T, call.N), call.avg_D)
    /\ (/\ ret.branch = "divide first"
        /\ call.L >= call.T * ((call.N * (call.N + 1)) \div 2)) => ~ret.wrapped

\* the tuples in the rows of the table
Recorded == {t_next_block_difficulty[i] : i \in 1 .. Len(t_next_block_difficulty)}

\* the calls a thread has returned from that found the statistics open
OpenCalls(t) ==
  {c \in {threads[t].finished[i] : i \in 1 .. Len(threads[t].finished)} : c.rc # "-1"}

\* C15 as claimed: with two threads in insert_next_difficulty on one object
\* and statistics open, in every interleaving each call binds, steps and
\* finalizes only the statement it prepared itself, nothing crashes, and the
\* tuple of every call that has returned is recorded, once.
C15_InsertsSerialized ==
  /\ ~sqlite.crashed
  /\ \A t \in Threads :
       /\ ~threads[t].foreign
       /\ \A c \in OpenCalls(t) :
            Cardinality({i \in 1 .. Len(t_next_block_difficulty) :
                           t_next_block_difficulty[i] = c.tuple}) = 1

\* C15, one thread at a time: a call that runs from its entry to its return
\* while the other thread is idle uses its own statement and records its tuple
C15_AloneIsSafe ==
  [][\A t \in Threads :
       (/\ threads[t].pc = "commit"
        /\ threads'[t].pc = "idle"
        /\ ~threads[t].foreign
        /\ \A u \in Threads \ {t} : threads[u].calls = 0 /\ threads[u].pc = "idle") =>
         threads[t].tuple \in Recorded]_vars

====
